---- MODULE Spec2Model ----
(***************************************************************************)
(* A model of the schema-js storage and query core: one table with its     *)
(* temp shards (TempMapShard), its primary MapShard, its hash indexes and  *)
(* the query search manager (QuerySearchManager).                          *)
(*                                                                         *)
(* The query planner is translated from                                    *)
(* crates/query/src/search/search_manager.rs.  The shard store, the row    *)
(* codec and the index upkeep follow the specification's sections 4.1-4.6. *)
(***************************************************************************)
EXTENDS Integers, Sequences, FiniteSets, TLC

(***************************************************************************)
(* Bounds of the model.                                                    *)
(***************************************************************************)
\* Number of insert calls in one behaviour.
MaxRows == 3
\* Records per temp shard (TempOffsetTypes::Custom(Some(1000)) in
\* EngineTable::new, scaled down so that a rollover happens).
Capacity == 2
\* Records per primary shard before a new shard becomes current.
ShardMax == 2
\* Number of insert calls in one behaviour of SpecPairs.
MaxPairRows == 2

\* Columns of the table (all of type String) and the values a field takes.
Keys == {"a", "b", "c"}
Vals == {"x", "y"}
\* Operators of a condition: "=" is the supported one, ">" stands for any other.
FilterTypes == {"=", ">"}

UidField == "_uid"

VARIABLES
    table,      \* tbl.table: the declared schema; table.indexes is Vec<Index>
    temps,      \* tbl.temps: the temp shards in creation order, each a sequence of records
    data,       \* tbl.data: the primary MapShard, a sequence of shards
    idx,        \* tbl.indexes: index name -> (composite key -> ordinal)
    nextUid,    \* number of the next inserted row (its _uid)
    ordinals,   \* the ordinals MapShard.append has returned so far, in call order
    ret,        \* the last call and what it returned
    databases,  \* SchemeJsEngine.databases: Vec<EngineDb>
    threads     \* the inserting threads of test_db_engine and the engine lock

vars == <<table, temps, data, idx, nextUid, ordinals, ret, databases, threads>>

(***************************************************************************)
(* Small helpers.                                                          *)
(***************************************************************************)
Range(s) == {s[i] : i \in DOMAIN s}

Min(S) == CHOOSE x \in S : \A y \in S : x <= y

RECURSIVE SetToSeq(_)
\* The elements of a finite set of numbers in increasing order.
SetToSeq(S) == IF S = {} THEN <<>> ELSE <<Min(S)>> \o SetToSeq(S \ {Min(S)})

RECURSIVE Flatten(_)
Flatten(ss) == IF ss = <<>> THEN <<>> ELSE Head(ss) \o Flatten(Tail(ss))

\* All orders in which the elements of a sequence can be listed.
Orderings(s) ==
    {[i \in DOMAIN s |-> s[p[i]]] :
        p \in {q \in [DOMAIN s -> DOMAIN s] : \A i, j \in DOMAIN s : i # j => q[i] # q[j]}}

(***************************************************************************)
(* Row codec (specification 4.4): a self-describing encoding, a sequence   *)
(* of (field, value) pairs; deserialize rebuilds the document.             *)
(***************************************************************************)
FieldOrder == <<UidField, "a", "b", "c", "id", "enabled", "note">>

RECURSIVE EncodeFields(_, _)
EncodeFields(doc, fields) ==
    IF fields = <<>> THEN <<>>
    ELSE (IF Head(fields) \in DOMAIN doc
             THEN << <<Head(fields), doc[Head(fields)]>> >>
             ELSE <<>>)
         \o EncodeFields(doc, Tail(fields))

\* An encoding that writes _uid and the declared columns only.
SerializeDeclared(doc) == EncodeFields(doc, <<UidField, "a", "b", "c", "id", "enabled">>)

Serialize(doc) == EncodeFields(doc, FieldOrder)

Deserialize(bytes) ==
    [f \in {bytes[i][1] : i \in DOMAIN bytes} |->
        (CHOOSE p \in Range(bytes) : p[1] = f)[2]]

\* serialize returns a Result: the bytes, or an error of the encoder.
SerializeResults(doc) ==
    {[ok |-> TRUE, bytes |-> Serialize(doc)], [ok |-> FALSE, bytes |-> <<>>]}

\* Row::get_value: the value of a column of a decoded row.
GetValue(row, column) == row[column]

(***************************************************************************)
(* MapShard (specification 4.2): a sequence of shards in creation order;   *)
(* the last one is current and accepts appends, the older ones are         *)
(* read-only.  Ordinals are 0-based and span all shards.                   *)
(***************************************************************************)
RECURSIVE CumulativeCount(_, _)
\* Number of records held by the shards before shard s.
CumulativeCount(d, s) ==
    IF s <= 1 THEN 0 ELSE CumulativeCount(d, s - 1) + Len(d[s - 1])

MapShardLen(d) == CumulativeCount(d, Len(d) + 1)

\* The shards after append(bytes): a new shard becomes current when the
\* current one is full (or on the first write).
MapShardAppend(d, bytes) ==
    IF d = <<>> \/ Len(d[Len(d)]) >= ShardMax
    THEN Append(d, <<bytes>>)
    ELSE [d EXCEPT ![Len(d)] = Append(@, bytes)]

\* An append that returns the record's position within the current shard.
AppendOrdinalLocal(d, bytes) ==
    LET d2 == MapShardAppend(d, bytes)
    IN  Len(d2[Len(d2)]) - 1

\* An append that returns the number of records after the write.
AppendOrdinalAfterCount(d, bytes) == MapShardLen(MapShardAppend(d, bytes))

\* The ordinal append(bytes) returns: the position of the record just
\* written, counted across all shards.
AppendOrdinal(d, bytes) ==
    LET d2 == MapShardAppend(d, bytes)
    IN  CumulativeCount(d2, Len(d2)) + Len(d2[Len(d2)]) - 1

\* A read that looks only into the current shard.
GetElementOfCurrentShard(d, ordinal) ==
    IF ordinal < 0 \/ ordinal >= MapShardLen(d) \/ ordinal < CumulativeCount(d, Len(d))
    THEN [ok |-> FALSE, bytes |-> <<>>]
    ELSE [ok |-> TRUE, bytes |-> d[Len(d)][ordinal - CumulativeCount(d, Len(d)) + 1]]

\* get_element(ordinal): the global ordinal is translated into
\* (shard_index, local_ordinal) by the cumulative counts.
GetElement(d, ordinal) ==
    IF ordinal < 0 \/ ordinal >= MapShardLen(d)
    THEN [ok |-> FALSE, bytes |-> <<>>]
    ELSE LET s == CHOOSE j \in 1..Len(d) :
                      /\ CumulativeCount(d, j) <= ordinal
                      /\ ordinal < CumulativeCount(d, j) + Len(d[j])
         IN  [ok |-> TRUE, bytes |-> d[s][ordinal - CumulativeCount(d, s) + 1]]

(***************************************************************************)
(* TempMapShard (specification 4.3).                                       *)
(***************************************************************************)
\* An append that overwrites the last record of the active temp shard when
\* there is one.
TempInsertRowReplacing(ts, bytes) ==
    IF ts = <<>> \/ ts[Len(ts)] = <<>>
    THEN (IF ts = <<>> THEN << <<bytes>> >> ELSE [ts EXCEPT ![Len(ts)] = <<bytes>>])
    ELSE [ts EXCEPT ![Len(ts)] = [@ EXCEPT ![Len(@)] = bytes]]

\* An append that never opens a new temp shard.
TempInsertRowNeverRolling(ts, bytes) ==
    LET t1 == IF ts = <<>> THEN << <<>> >> ELSE ts
    IN  [t1 EXCEPT ![Len(t1)] = Append(@, bytes)]

\* insert_row(bytes): append to the active (last) temp shard, created on the
\* first write; when its length reaches the capacity a new temp shard is
\* opened and becomes active.
TempInsertRow(ts, bytes) ==
    LET t1 == IF ts = <<>> THEN << <<>> >> ELSE ts
        t2 == [t1 EXCEPT ![Len(t1)] = Append(@, bytes)]
    IN  IF Len(t2[Len(t2)]) >= Capacity THEN Append(t2, <<>>) ELSE t2

(***************************************************************************)
(* Index manager (specification 4.6), hash variant.                        *)
(***************************************************************************)
\* DataValue::to_string of a String value: the string itself.
ValueToString(v) == v

\* CompositeKey of a row under an index: (column, value) in member order.
ComposeKey(index, row) ==
    [i \in 1..Len(index.members) |->
        <<index.members[i], ValueToString(GetValue(row, index.members[i]))>>]

RECURSIVE ToKey(_)
\* to_key: a stable encoding of a CompositeKey, its parts one after another.
ToKey(ck) == IF ck = <<>> THEN <<>> ELSE <<ck[1][1], ck[1][2]>> \o ToKey(Tail(ck))

\* A put that keeps the entry a key already has.
IndexPutKeepingFirst(m, key, ordinal) ==
    [k \in DOMAIN m \cup {key} |-> IF k \in DOMAIN m THEN m[k] ELSE ordinal]

\* put: last write wins.
IndexPut(m, key, ordinal) ==
    [k \in DOMAIN m \cup {key} |-> IF k = key THEN ordinal ELSE m[k]]

\* get: Option<ordinal>.
IndexGet(m, key) ==
    IF key \in DOMAIN m THEN [some |-> TRUE, val |-> m[key]]
                        ELSE [some |-> FALSE, val |-> 0]

EmptyIndex == [k \in {} |-> 0]

RECURSIVE PutAll(_, _, _, _)
\* The per-record callback of reconciliation: an entry in every index
\* declared on the table, under the record's final ordinal.
PutAll(ix, indexes, row, ordinal) ==
    IF indexes = <<>> THEN ix
    ELSE LET index == Head(indexes)
             ix2 == IF Range(index.members) \subseteq DOMAIN row
                    THEN [ix EXCEPT ![index.name] =
                              IndexPut(@, ToKey(ComposeKey(index, row)), ordinal)]
                    ELSE ix
         IN  PutAll(ix2, Tail(indexes), row, ordinal)

\* One record moved from a temp shard to the primary MapShard.
MigrateRecord(st, indexes, bytes) ==
    LET ordinal == AppendOrdinal(st.data, bytes)
    IN  [data     |-> MapShardAppend(st.data, bytes),
         idx      |-> PutAll(st.idx, indexes, Deserialize(bytes), ordinal),
         ordinals |-> Append(st.ordinals, ordinal)]

RECURSIVE DrainRecords(_, _, _)
\* The records of one temp shard migrated in order.
DrainRecords(st, indexes, records) ==
    IF records = <<>> THEN st
    ELSE DrainRecords(MigrateRecord(st, indexes, Head(records)), indexes, Tail(records))

RECURSIVE DrainShardsNewestFirst(_, _, _)
\* A reconciliation that drains the newest temp shard first.
DrainShardsNewestFirst(st, indexes, shards) ==
    IF shards = <<>> THEN st
    ELSE DrainShardsNewestFirst(DrainRecords(st, indexes, shards[Len(shards)]), indexes,
                                SubSeq(shards, 1, Len(shards) - 1))

RECURSIVE DrainShards(_, _, _)
\* The temp shards drained one after another, oldest first.
DrainShards(st, indexes, shards) ==
    IF shards = <<>> THEN st
    ELSE DrainShards(DrainRecords(st, indexes, Head(shards)), indexes, Tail(shards))

(***************************************************************************)
(* Predicate trees (QueryOps).  One record shape for the three variants:   *)
(* a Condition carries key, filter_type and value; And and Or carry ops.   *)
(***************************************************************************)
Condition(k, f, v) == [type |-> "cond", key |-> k, filter_type |-> f, value |-> v, ops |-> <<>>]
And(ops) == [type |-> "and", key |-> "", filter_type |-> "", value |-> "", ops |-> ops]
Or(ops)  == [type |-> "or",  key |-> "", filter_type |-> "", value |-> "", ops |-> ops]

None == [some |-> FALSE]
Some(x) == [some |-> TRUE, val |-> x]

(***************************************************************************)
(* QuerySearchManager, crates/query/src/search/search_manager.rs.          *)
(* A Vec<u64> is a sequence.  The two set operations collect a HashSet     *)
(* into a Vec: the elements are listed here in increasing order, and       *)
(* Search lists them in every order the HashSet's iteration may produce.   *)
(***************************************************************************)
IntersectIndices(a, b) == SetToSeq(Range(a) \cap Range(b))

\* A union that keeps what both inputs hold twice.
UnionIndicesKeepingBoth(a, b) == a \o b

UnionIndices(a, b) == SetToSeq(Range(a) \cup Range(b))

\* The first declared index whose only member is the condition's key.
GetIndexForCondition(cond, indexes) ==
    LET hits == {i \in 1..Len(indexes) :
                    Len(indexes[i].members) = 1 /\ indexes[i].members[1] = cond.key}
    IN  IF hits = {} THEN None ELSE Some(indexes[Min(hits)])

EvaluateCondition(ix, cond, indexes) ==
    IF cond.filter_type # "="
    THEN <<>>
    ELSE LET index == GetIndexForCondition(cond, indexes)
         IN  IF index.some
             THEN LET comp_key == << <<cond.key, ValueToString(cond.value)>> >>
                      pointer  == IndexGet(ix[index.val.name], ToKey(comp_key))
                  IN  IF pointer.some THEN <<pointer.val>> ELSE <<>>
             ELSE <<>>

RECURSIVE CollectConditions(_)
RECURSIVE CollectAll(_, _)
\* The loop of the And arm: the children's conditions one after another,
\* None as soon as a child holds an Or.
CollectAll(ops, conditions) ==
    IF ops = <<>> THEN Some(conditions)
    ELSE LET child == CollectConditions(Head(ops))
         IN  IF child.some THEN CollectAll(Tail(ops), conditions \o child.val)
                           ELSE None

CollectConditions(query) ==
    CASE query.type = "cond" -> Some(<<query>>)
      [] query.type = "and"  -> CollectAll(query.ops, <<>>)
      [] query.type = "or"   -> None

\* The subset test the other way round: the first declared index whose
\* members are all among the condition keys.
FindIndexForConditionsReversed(conditions, indexes) ==
    LET condition_keys == {conditions[i].key : i \in DOMAIN conditions}
        hits == {i \in 1..Len(indexes) : Range(indexes[i].members) \subseteq condition_keys}
    IN  IF hits = {} THEN None ELSE Some(indexes[Min(hits)])

\* The first declared index whose members include every condition key.
FindIndexForConditions(conditions, indexes) ==
    LET condition_keys == {conditions[i].key : i \in DOMAIN conditions}
        hits == {i \in 1..Len(indexes) : condition_keys \subseteq Range(indexes[i].members)}
    IN  IF hits = {} THEN None ELSE Some(indexes[Min(hits)])

\* A key whose parts follow the order of the conditions, not of the members.
GenerateIndexKeyInConditionOrder(index, conditions) ==
    IF \A m \in DOMAIN index.members :
           \E c \in DOMAIN conditions : conditions[c].key = index.members[m]
    THEN LET used == SelectSeq(conditions, LAMBDA c : c.key \in Range(index.members))
         IN  Some([i \in DOMAIN used |-> <<used[i].key, ValueToString(used[i].value)>>])
    ELSE None

\* For every member of the index the first condition on that member; None
\* when a member has no condition.
GenerateIndexKey(index, conditions) ==
    IF \A m \in DOMAIN index.members :
           \E c \in DOMAIN conditions : conditions[c].key = index.members[m]
    THEN Some([m \in DOMAIN index.members |->
                  LET c == Min({j \in DOMAIN conditions : conditions[j].key = index.members[m]})
                  IN  <<conditions[c].key, ValueToString(conditions[c].value)>>])
    ELSE None

FindIndexForQuery(query, indexes) ==
    LET conditions == CollectConditions(query)
    IN  IF ~conditions.some THEN None
        ELSE LET index == FindIndexForConditions(conditions.val, indexes)
             IN  IF ~index.some THEN None
                 ELSE LET key == GenerateIndexKey(index.val, conditions.val)
                      IN  IF key.some THEN Some([index |-> index.val, key |-> key.val])
                                      ELSE None

RECURSIVE ExecuteQuery(_, _, _)
RECURSIVE AndLoop(_, _, _, _)
RECURSIVE OrLoop(_, _, _, _)

\* The loop of the And arm: the first child's result, then intersected with
\* every later child's; an And without children yields the empty Vec.
AndLoop(indexes, ix, ops, results) ==
    IF ops = <<>> THEN (IF results.some THEN results.val ELSE <<>>)
    ELSE LET res == ExecuteQuery(indexes, ix, Head(ops))
         IN  AndLoop(indexes, ix, Tail(ops),
                     IF results.some THEN Some(IntersectIndices(results.val, res))
                                     ELSE Some(res))

\* The loop of the Or arm.
OrLoop(indexes, ix, ops, results) ==
    IF ops = <<>> THEN results
    ELSE OrLoop(indexes, ix, Tail(ops),
                UnionIndices(results, ExecuteQuery(indexes, ix, Head(ops))))

ExecuteQuery(indexes, ix, query) ==
    LET index_query == FindIndexForQuery(query, indexes)
    IN  IF index_query.some
        THEN IF index_query.val.index.name \in DOMAIN ix
             THEN LET pointer == IndexGet(ix[index_query.val.index.name],
                                          ToKey(index_query.val.key))
                  IN  IF pointer.some THEN <<pointer.val>> ELSE <<>>
             ELSE <<>>
        ELSE CASE query.type = "cond" -> EvaluateCondition(ix, query, indexes)
               [] query.type = "and"  -> AndLoop(indexes, ix, query.ops, None)
               [] query.type = "or"   -> OrLoop(indexes, ix, query.ops, <<>>)

\* The rows search returns for the pointers, in the pointers' order; a
\* pointer past the end of the primary MapShard makes the unwrap panic.
ReadRows(d, pointers) ==
    IF \A i \in DOMAIN pointers : GetElement(d, pointers[i]).ok
    THEN [panic |-> FALSE,
          rows  |-> [i \in DOMAIN pointers |-> Deserialize(GetElement(d, pointers[i]).bytes)]]
    ELSE [panic |-> TRUE, rows |-> <<>>]

(***************************************************************************)
(* The table: columns a, b, c of type String, none required, and one of    *)
(* the index declarations below.  TestIndexes is the declaration of        *)
(* test_search_manager (user_age -> a, user_country -> b, user_name -> c): *)
(* the single-member indexes first, the composite one last.                *)
(***************************************************************************)
Index(name, members) == [name |-> name, members |-> members]

TestIndexes ==
    <<Index("a_indx", <<"a">>), Index("b_indx", <<"b">>),
      Index("c_indx", <<"c">>), Index("a_b_indx", <<"a", "b">>)>>

\* The same four indexes, the composite one declared first.
CompositeFirstIndexes ==
    <<Index("a_b_indx", <<"a", "b">>), Index("a_indx", <<"a">>),
      Index("b_indx", <<"b">>), Index("c_indx", <<"c">>)>>

\* No index on c alone, and a three-member index declared before (a, b).
WideFirstIndexes ==
    <<Index("a_b_c_indx", <<"a", "b", "c">>), Index("a_b_indx", <<"a", "b">>),
      Index("a_indx", <<"a">>), Index("b_indx", <<"b">>)>>

IndexDeclarations == {TestIndexes, CompositeFirstIndexes, WideFirstIndexes}

ColumnNames == <<"a", "b", "c">>

Columns == [k \in Keys |-> [data_type |-> "String", required |-> FALSE]]

\* The JSON values that are strings, booleans and numbers.
JsonStrings == Vals
JsonBooleans == {"true", "false"}
JsonNumbers == {"1"}
JsonValues == JsonStrings \cup JsonBooleans \cup JsonNumbers

\* The table of get_common_table and test_db_engine has the columns id and
\* enabled; note is a field no schema mentions.
SchemaColumns == {"id", "enabled"}
ExtraField == "note"
DataTypes == {"String", "Boolean"}

\* Every declaration of the two columns.
Schemas == [SchemaColumns -> [data_type : DataTypes, required : BOOLEAN]]

\* Every document over the two columns and the extra field, each field
\* absent or holding some JSON value.
Documents ==
    UNION {[fields -> JsonValues] : fields \in SUBSET (SchemaColumns \cup {ExtraField})}

\* The orders in which iterating the HashMap of columns may yield them.
ColumnOrders(columns) ==
    {order \in [1..Cardinality(DOMAIN columns) -> DOMAIN columns] :
        \A i, j \in DOMAIN order : i # j => order[i] # order[j]}

(***************************************************************************)
(* EngineTable, crates/engine/src/engine_table.rs.                         *)
(***************************************************************************)
RECURSIVE ValidateRowValueStrict(_, _, _)
\* A validation that asks for every declared column, required or not.
ValidateRowValueStrict(columns, order, item) ==
    IF order = <<>> THEN [ok |-> TRUE, err |-> "", column |-> ""]
    ELSE LET name == Head(order)
             column == columns[name]
         IN  IF name \notin DOMAIN item
             THEN [ok |-> FALSE, err |-> "MissingColumn", column |-> name]
             ELSE IF column.data_type = "String" /\ item[name] \notin JsonStrings
                  THEN [ok |-> FALSE, err |-> "ExpectedString", column |-> name]
                  ELSE IF column.data_type = "Boolean" /\ item[name] \notin JsonBooleans
                       THEN [ok |-> FALSE, err |-> "ExpectedBoolean", column |-> name]
                       ELSE ValidateRowValueStrict(columns, Tail(order), item)

RECURSIVE ValidateRowValue(_, _, _)
\* validate_row_value with the column map iterated in the given order.
ValidateRowValue(columns, order, item) ==
    IF order = <<>> THEN [ok |-> TRUE, err |-> "", column |-> ""]
    ELSE LET name == Head(order)
             column == columns[name]
         IN  IF name \notin DOMAIN item
             THEN IF column.required
                  THEN [ok |-> FALSE, err |-> "MissingColumn", column |-> name]
                  ELSE [ok |-> TRUE, err |-> "", column |-> ""]
             ELSE IF column.data_type = "String" /\ item[name] \notin JsonStrings
                  THEN [ok |-> FALSE, err |-> "ExpectedString", column |-> name]
                  ELSE IF column.data_type = "Boolean" /\ item[name] \notin JsonBooleans
                       THEN [ok |-> FALSE, err |-> "ExpectedBoolean", column |-> name]
                       ELSE ValidateRowValue(columns, Tail(order), item)

\* The documents a caller inserts: every column present, with a string.
Items == [Keys -> Vals]

WithUid(item, uid) ==
    [f \in DOMAIN item \cup {UidField} |-> IF f = UidField THEN uid ELSE item[f]]

NoQuery == [type |-> "none", key |-> "", filter_type |-> "", value |-> "", ops |-> <<>>]

\* What a call hands back: the rows of a search (or its panic); drained lists
\* the sizes of the temp shards a reconcile_all call has drained.
Returned(op, query, rows, panic, drained) ==
    [op |-> op, query |-> query, rows |-> rows, panic |-> panic, drained |-> drained]

\* Nothing to inspect: no call yet, Ok(()) of an insert, a dropped result.
Nothing == Returned("ok", NoQuery, <<>>, FALSE, <<>>)

\* The error a call returned: InsertionError::ValidationError(err(column)),
\* InsertionError::SerializationError, QueryError::InvalidTable(column).
Failed(kind, err, column) == [op |-> "error", kind |-> kind, err |-> err, column |-> column]

\* No thread has been spawned and the engine lock is free.
NoThreads ==
    [pc |-> <<>>, item |-> <<>>, val |-> <<>>, lock |-> 0, locking |-> FALSE, arrived |-> <<>>]

(***************************************************************************)
(* Vocabulary of the properties.                                           *)
(***************************************************************************)
\* The decoded records of the primary MapShard, by position (ordinal + 1).
PrimaryRows == [i \in DOMAIN Flatten(data) |-> Deserialize(Flatten(data)[i])]

\* The decoded records still staged in temp shards.
StagedRows == {Deserialize(b) : b \in Range(Flatten(temps))}

\* The rows search(ops) returns in the current state, as a set.
RowsOf(ops) == Range(ReadRows(data, ExecuteQuery(table.indexes, idx, ops)).rows)

\* The table declares an index whose members are exactly these.
Declares(members) == \E i \in DOMAIN table.indexes : table.indexes[i].members = members

RECURSIVE Satisfies(_, _)
\* The meaning of a predicate tree on a row, every operator read as equality.
Satisfies(row, ops) ==
    CASE ops.type = "cond" -> ops.key \in DOMAIN row /\ row[ops.key] = ops.value
      [] ops.type = "and"  -> \A i \in DOMAIN ops.ops : Satisfies(row, ops.ops[i])
      [] ops.type = "or"   -> \E i \in DOMAIN ops.ops : Satisfies(row, ops.ops[i])
      [] OTHER -> FALSE

NoDuplicates(rows) == \A i, j \in DOMAIN rows : i # j => rows[i] # rows[j]

(***************************************************************************)
(* The state machine: one caller issuing insert, reconcile_all and search  *)
(* on one registered table.  The result of a search is held in ret until   *)
(* the caller drops it (DropResult) and goes on with its next call.        *)
(***************************************************************************)
Init ==
    /\ table \in [name : {"users"}, columns : {Columns}, indexes : IndexDeclarations]
    /\ temps = <<>>
    /\ data = <<>>
    /\ idx = [n \in {table.indexes[i].name : i \in DOMAIN table.indexes} |-> EmptyIndex]
    /\ nextUid = 1
    /\ ordinals = <<>>
    /\ ret = Nothing
    /\ databases = <<>>
    /\ threads = NoThreads

\* An insert that stages the encoded row before it looks at the outcome of
\* the validation.
InsertRowStagingFirst(item) ==
    /\ ret.op # "search"
    /\ nextUid <= MaxRows
    /\ \E order \in ColumnOrders(table.columns),
          val \in SerializeResults(WithUid(item, nextUid)) :
           LET validate == ValidateRowValue(table.columns, order, item)
           IN  /\ temps' = TempInsertRow(temps, Serialize(WithUid(item, nextUid)))
               /\ nextUid' = nextUid + 1
               /\ ret' = IF ~validate.ok
                          THEN Failed("ValidationError", validate.err, validate.column)
                          ELSE IF ~val.ok THEN Failed("SerializationError", "", "")
                                          ELSE Nothing
    /\ UNCHANGED <<table, data, idx, ordinals, databases, threads>>

\* insert_row(item): validate, serialize, stage in the temp shards; an error
\* of the validation or of the serializer is returned before anything is
\* staged.
InsertRow(item) ==
    /\ ret.op # "search"
    /\ nextUid <= MaxRows
    /\ \E order \in ColumnOrders(table.columns),
          val \in SerializeResults(WithUid(item, nextUid)) :
           LET validate == ValidateRowValue(table.columns, order, item)
           IN  IF ~validate.ok
               THEN /\ ret' = Failed("ValidationError", validate.err, validate.column)
                    /\ UNCHANGED <<temps, nextUid>>
               ELSE IF ~val.ok
                    THEN /\ ret' = Failed("SerializationError", "", "")
                         /\ UNCHANGED <<temps, nextUid>>
                    ELSE /\ temps' = TempInsertRow(temps, val.bytes)
                         /\ nextUid' = nextUid + 1
                         /\ ret' = Nothing
    /\ UNCHANGED <<table, data, idx, ordinals, databases, threads>>

\* A reconciliation that leaves the active (last) temp shard alone.
ReconcileAllButActive ==
    /\ ret.op # "search"
    /\ LET drained == SubSeq(temps, 1, Len(temps) - 1)
           st == DrainShards([data |-> data, idx |-> idx, ordinals |-> ordinals],
                             table.indexes, drained)
       IN  /\ data' = st.data
           /\ idx' = st.idx
           /\ ordinals' = st.ordinals
           /\ temps' = IF temps = <<>> THEN <<>> ELSE <<temps[Len(temps)]>>
           /\ ret' = Returned("reconcile_all", NoQuery, <<>>, FALSE,
                              [i \in DOMAIN drained |-> Len(drained[i])])
    /\ UNCHANGED <<table, nextUid, databases, threads>>

\* reconcile_all: the temp shards are drained in creation order, each one
\* record by record into the primary MapShard, and deleted.
ReconcileAll ==
    /\ ret.op # "search"
    /\ LET st == DrainShards([data |-> data, idx |-> idx, ordinals |-> ordinals],
                             table.indexes, temps)
       IN  /\ data' = st.data
           /\ idx' = st.idx
           /\ ordinals' = st.ordinals
    /\ temps' = <<>>
    /\ ret' = Returned("reconcile_all", NoQuery, <<>>, FALSE,
                       [i \in DOMAIN temps |-> Len(temps[i])])
    /\ UNCHANGED <<table, nextUid, databases, threads>>

\* A search that also scans the temp shards for rows that meet the predicate.
SearchStaged(table_name, ops) ==
    /\ ret.op # "search"
    /\ table_name = table.name
    /\ \E pointers \in Orderings(ExecuteQuery(table.indexes, idx, ops)) :
           LET read == ReadRows(data, pointers)
               staged == SelectSeq([i \in DOMAIN Flatten(temps) |-> Deserialize(Flatten(temps)[i])],
                                   LAMBDA r : Satisfies(r, ops))
           IN  ret' = Returned("search", ops, read.rows \o staged, read.panic, <<>>)
    /\ UNCHANGED <<table, temps, data, idx, nextUid, ordinals, databases, threads>>

\* A search that answers from the registered table whatever name is asked.
SearchAnyTable(table_name, ops) ==
    /\ ret.op # "search"
    /\ \E pointers \in Orderings(ExecuteQuery(table.indexes, idx, ops)) :
           LET read == ReadRows(data, pointers)
           IN  ret' = Returned("search", ops, read.rows, read.panic, <<>>)
    /\ UNCHANGED <<table, temps, data, idx, nextUid, ordinals, databases, threads>>

\* search(table_name, ops): InvalidTable(table_name) when no table of that
\* name is registered; otherwise the pointers of execute_query, then one
\* get_element per pointer.  The pointers come in any order the HashSet
\* iteration of the set operations may produce.
Search(table_name, ops) ==
    /\ ret.op # "search"
    /\ IF table_name # table.name
       THEN ret' = Failed("QueryError", "InvalidTable", table_name)
       ELSE \E pointers \in Orderings(ExecuteQuery(table.indexes, idx, ops)) :
                LET read == ReadRows(data, pointers)
                IN  ret' = Returned("search", ops, read.rows, read.panic, <<>>)
    /\ UNCHANGED <<table, temps, data, idx, nextUid, ordinals, databases, threads>>

\* The caller drops the result of its search.
DropResult ==
    /\ ret.op = "search"
    /\ ret' = Nothing
    /\ UNCHANGED <<table, temps, data, idx, nextUid, ordinals, databases, threads>>

(***************************************************************************)
(* The queries a caller issues.                                            *)
(***************************************************************************)
\* The names a caller asks for: the registered table and one that was never
\* registered.
TableNames == {"users", "ghosts"}

EqConditions == {Condition(k, "=", v) : k \in Keys, v \in Vals}
Conditions == {Condition(k, f, v) : k \in Keys, f \in FilterTypes, v \in Vals}

\* The shape of test_search_manager's query, Or[And[a = _, b = _], c = _].
TestShaped ==
    {Or(<<And(<<Condition("a", "=", u), Condition("b", "=", v)>>), Condition("c", "=", w)>>) :
        u \in Vals, v \in Vals, w \in Vals}

\* Pairs of conditions of which at least one is an equality.
Pairs == {<<p, q>> : p \in EqConditions, q \in Conditions}
          \cup {<<p, q>> : p \in Conditions, q \in EqConditions}

Queries == Conditions \cup TestShaped

PairQueries ==
    Conditions \cup TestShaped \cup {And(pq) : pq \in Pairs} \cup {Or(pq) : pq \in Pairs}

Next ==
    \/ \E item \in Items : InsertRow(item)
    \/ ReconcileAll
    \/ \E table_name \in TableNames, ops \in Queries : Search(table_name, ops)
    \/ DropResult

Spec == Init /\ [][Next]_vars

\* The same table under every And and Or of two conditions, with fewer rows.
NextPairs ==
    \/ \E item \in Items : nextUid <= MaxPairRows /\ InsertRow(item)
    \/ ReconcileAll
    \/ \E table_name \in TableNames, ops \in PairQueries : Search(table_name, ops)
    \/ DropResult

SpecPairs == Init /\ [][NextPairs]_vars

(***************************************************************************)
(* Properties.                                                             *)
(***************************************************************************)

\* C1: once everything inserted has been reconciled, search(Condition(k, "=", v))
\* on a table with an index on {k} returns exactly the rows of the primary
\* MapShard whose field k is v, one result per such row.
C1_EqualitySearchReturnsEveryMatch ==
    (/\ ret.op = "search"
     /\ ret.query.type = "cond"
     /\ ret.query.filter_type = "="
     /\ Declares(<<ret.query.key>>)
     /\ StagedRows = {})
    => LET matching == {r \in Range(PrimaryRows) : r[ret.query.key] = ret.query.value}
       IN  /\ ~ret.panic
           /\ Range(ret.rows) = matching
           /\ Len(ret.rows) = Cardinality(matching)

\* C2: a search never returns a row that is staged in a temp shard; every
\* row it returns is a record of the primary MapShard.
C2_StagedRowsNeverReturned ==
    ret.op = "search"
    => /\ Range(ret.rows) \cap StagedRows = {}
       /\ Range(ret.rows) \subseteq Range(PrimaryRows)

\* A search returned a reconciled row while a staged row meets its predicate.
C2_Witness ==
    /\ ret.op = "search"
    /\ ret.rows # <<>>
    /\ \E r \in StagedRows : Satisfies(r, ret.query)

\* Row uid is a record of the primary MapShard d, and the equality search
\* on its value of the indexed column k, run on d and the indexes ix,
\* returns it.
Visible(d, ix, uid, k) ==
    /\ Declares(<<k>>)
    /\ \E i \in DOMAIN Flatten(d) :
           LET row == Deserialize(Flatten(d)[i])
           IN  /\ row[UidField] = uid
               /\ row \in Range(ReadRows(d, ExecuteQuery(table.indexes, ix,
                                                        Condition(k, "=", row[k]))).rows)

\* C3: a reconciled row that an indexed equality search returns is still
\* returned by that search after every later insert and reconciliation.
C3_ReconciledRowsStayVisible ==
    [][\A uid \in 1..MaxRows, k \in Keys :
           Visible(data, idx, uid, k) => Visible(data', idx', uid, k)]_vars

\* C4: the rows of a single writer, inserted as number 1, 2, 3, ... and
\* reconciled, hold the primary ordinals 0, 1, 2, ... in that order, and
\* what is still staged follows in insertion order.
C4_InsertionOrderIsOrdinalOrder ==
    /\ \A ordinal \in 0..(MapShardLen(data) - 1) :
           /\ GetElement(data, ordinal).ok
           /\ Deserialize(GetElement(data, ordinal).bytes)[UidField] = ordinal + 1
    /\ \A i \in DOMAIN Flatten(temps) :
           Deserialize(Flatten(temps)[i])[UidField] = MapShardLen(data) + i

\* One reconcile_all has drained two temp shards that held records (more
\* rows than one temp shard takes) after an earlier reconciliation or not.
C4_Witness ==
    /\ ret.op = "reconcile_all"
    /\ Cardinality({i \in DOMAIN ret.drained : ret.drained[i] > 0}) >= 2
    /\ MapShardLen(data) > Capacity

\* C5: the ordinals append has returned are 0, 1, 2, ... without a gap, and
\* after N appends len() is N, whatever number of shards was opened.
C5_OrdinalsWithoutGaps ==
    /\ \A n \in DOMAIN ordinals : ordinals[n] = n - 1
    /\ MapShardLen(data) = Len(ordinals)

\* Appends have gone to a second primary shard.
C5_Witness ==
    /\ Len(data) >= 2
    /\ Len(ordinals) > ShardMax
    /\ ordinals[Len(ordinals)] = Len(ordinals) - 1

\* The equality conditions a caller writes for the values of a row.
ConditionsOf(row) == [i \in 1..3 |-> Condition(<<"c", "b", "a">>[i], "=", row[<<"c", "b", "a">>[i]])]

\* The ordinal of the latest record of the primary MapShard that agrees with
\* row on every member of the index.
LatestOrdinal(index, row) ==
    CHOOSE o \in 0..(Len(PrimaryRows) - 1) :
        /\ \A m \in Range(index.members) : PrimaryRows[o + 1][m] = row[m]
        /\ \A o2 \in 0..(Len(PrimaryRows) - 1) :
               (\A m \in Range(index.members) : PrimaryRows[o2 + 1][m] = row[m]) => o2 <= o

\* C6: when reconcile_all has returned every inserted row is in the primary
\* MapShard, and for every declared index the lookup with the key the planner
\* builds from a row's values yields the ordinal of the latest record with
\* the same values of the index members.
C6_IndexCoherence ==
    ret.op = "reconcile_all"
    => /\ Len(PrimaryRows) = nextUid - 1
       /\ \A i \in DOMAIN table.indexes, o \in 0..(Len(PrimaryRows) - 1) :
              LET index == table.indexes[i]
                  row == PrimaryRows[o + 1]
                  key == GenerateIndexKey(index, ConditionsOf(row))
              IN  /\ key.some
                  /\ IndexGet(idx[index.name], ToKey(key.val)).some
                  /\ IndexGet(idx[index.name], ToKey(key.val)).val = LatestOrdinal(index, row)

\* reconcile_all has returned with three rows reconciled, two of which
\* collide on the key of a declared index and differ on another.
C6_Witness ==
    /\ ret.op = "reconcile_all"
    /\ Len(PrimaryRows) = 3
    /\ \E i \in DOMAIN table.indexes :
           /\ LatestOrdinal(table.indexes[i], PrimaryRows[1]) # 0
           /\ Len(table.indexes[i].members) = 2
    /\ \E j \in DOMAIN table.indexes :
           LatestOrdinal(table.indexes[j], PrimaryRows[1]) = 0

\* C7: on a reconciled table the rows of search(And[p, q]) are the rows
\* common to search(p) and search(q).
C7_AndIsIntersection ==
    (/\ ret.op = "search"
     /\ ret.query.type = "and"
     /\ Len(ret.query.ops) = 2
     /\ StagedRows = {})
    => /\ ~ret.panic
       /\ Range(ret.rows) = RowsOf(ret.query.ops[1]) \cap RowsOf(ret.query.ops[2])

\* C8: the rows of search(Or[p, q]) are the rows of search(p) together with
\* the rows of search(q), and no row is returned twice.
C8_OrIsUnion ==
    (/\ ret.op = "search"
     /\ ret.query.type = "or"
     /\ Len(ret.query.ops) = 2)
    => /\ ~ret.panic
       /\ Range(ret.rows) = RowsOf(ret.query.ops[1]) \cup RowsOf(ret.query.ops[2])
       /\ NoDuplicates(ret.rows)

\* An Or of two different predicates that both match one and the same row
\* has returned that row once.
C8_Witness ==
    /\ ret.op = "search"
    /\ ret.query.type = "or"
    /\ Len(ret.query.ops) = 2
    /\ ret.query.ops[1] # ret.query.ops[2]
    /\ RowsOf(ret.query.ops[1]) # {}
    /\ RowsOf(ret.query.ops[1]) = RowsOf(ret.query.ops[2])
    /\ Len(ret.rows) = 1

\* C9: a condition whose operator is not "=" yields no row, as the whole
\* query and as a child of an And, with or without an index on its key.
C9_UnsupportedOperatorIsEmpty ==
    ret.op = "search"
    => /\ (ret.query.type = "cond" /\ ret.query.filter_type # "=")
              => (ret.rows = <<>> /\ ~ret.panic)
       /\ (/\ ret.query.type = "and"
           /\ \E i \in DOMAIN ret.query.ops :
                  ret.query.ops[i].type = "cond" /\ ret.query.ops[i].filter_type # "=")
              => (ret.rows = <<>> /\ ~ret.panic)

\* The table declares exactly the indexes of test_search_manager: a, b, c
\* and (a, b), in some order.
DeclaresTestIndexes ==
    /\ Len(table.indexes) = 4
    /\ Declares(<<"a">>) /\ Declares(<<"b">>) /\ Declares(<<"c">>) /\ Declares(<<"a", "b">>)

\* The query is Or[And[a = x, b = y], c = z].
IsTestShaped(query) ==
    /\ query.type = "or" /\ Len(query.ops) = 2
    /\ query.ops[1].type = "and" /\ Len(query.ops[1].ops) = 2
    /\ query.ops[1].ops[1].type = "cond" /\ query.ops[1].ops[1].key = "a"
    /\ query.ops[1].ops[1].filter_type = "="
    /\ query.ops[1].ops[2].type = "cond" /\ query.ops[1].ops[2].key = "b"
    /\ query.ops[1].ops[2].filter_type = "="
    /\ query.ops[2].type = "cond" /\ query.ops[2].key = "c"
    /\ query.ops[2].filter_type = "="

\* The reconciled rows with a = x and b = y, and those with c = z.
RowsWithAB(query) ==
    {r \in Range(PrimaryRows) :
        r["a"] = query.ops[1].ops[1].value /\ r["b"] = query.ops[1].ops[2].value}
RowsWithC(query) == {r \in Range(PrimaryRows) : r["c"] = query.ops[2].value}

\* C10: with the indexes a, b, c and (a, b), exactly one reconciled row with
\* (a = x, b = y) and exactly one with c = z, Or[And[a = x, b = y], c = z]
\* returns those rows and no other.
C10_CompositeIndexQuery ==
    (/\ ret.op = "search"
     /\ IsTestShaped(ret.query)
     /\ DeclaresTestIndexes
     /\ Cardinality(RowsWithAB(ret.query)) = 1
     /\ Cardinality(RowsWithC(ret.query)) = 1)
    => /\ ~ret.panic
       /\ Range(ret.rows) = RowsWithAB(ret.query) \cup RowsWithC(ret.query)
       /\ NoDuplicates(ret.rows)

\* The query has returned the two rows out of three reconciled ones.
C10_Witness ==
    /\ ret.op = "search"
    /\ IsTestShaped(ret.query)
    /\ DeclaresTestIndexes
    /\ Cardinality(RowsWithAB(ret.query)) = 1
    /\ Cardinality(RowsWithC(ret.query)) = 1
    /\ Len(ret.rows) = 2
    /\ Len(PrimaryRows) = 3

(***************************************************************************)
(* Validation on its own: validate_row_value applied to every document     *)
(* under every declaration of the columns id and enabled.                  *)
(***************************************************************************)
\* What validate_row_value returned for a document.
Validated(item, result) == [op |-> "validate", item |-> item, result |-> result]

InitValidate ==
    /\ table \in [name : {"users"}, columns : Schemas, indexes : {<<>>}]
    /\ temps = <<>>
    /\ data = <<>>
    /\ idx = [n \in {} |-> EmptyIndex]
    /\ nextUid = 1
    /\ ordinals = <<>>
    /\ ret = Nothing
    /\ databases = <<>>
    /\ threads = NoThreads

\* validate_row_value(item), the columns iterated in some order.
ValidateRow(item) ==
    /\ \E order \in ColumnOrders(table.columns) :
           ret' = Validated(item, ValidateRowValue(table.columns, order, item))
    /\ UNCHANGED <<table, temps, data, idx, nextUid, ordinals, databases, threads>>

\* A document that passes the validation is given its _uid, serialized and
\* decoded again (insert_row's serialize, then T::from(&bytes) of a read).
EncodeRow(item) ==
    /\ \E order \in ColumnOrders(table.columns) :
           ValidateRowValue(table.columns, order, item).ok
    /\ LET doc == WithUid(item, nextUid)
           bytes == Serialize(doc)
       IN  ret' = [op |-> "encode", doc |-> doc, bytes |-> bytes, row |-> Deserialize(bytes)]
    /\ UNCHANGED <<table, temps, data, idx, nextUid, ordinals, databases, threads>>

NextValidate ==
    \/ \E item \in Documents : ValidateRow(item)
    \/ \E item \in Documents : EncodeRow(item)

SpecValidate == InitValidate /\ [][NextValidate]_vars

\* The required columns a document lacks.
MissingRequired(columns, item) ==
    {c \in DOMAIN columns : columns[c].required /\ c \notin DOMAIN item}

\* The columns whose field is present with a value of another type.
Mismatched(columns, item) ==
    {c \in DOMAIN columns \cap DOMAIN item :
        \/ columns[c].data_type = "String" /\ item[c] \notin JsonStrings
        \/ columns[c].data_type = "Boolean" /\ item[c] \notin JsonBooleans}

\* C11: a document that lacks a required column is not accepted, and when
\* that is its only violation the error is MissingColumn of that column.
C11_MissingRequiredColumnRejected ==
    (ret.op = "validate" /\ MissingRequired(table.columns, ret.item) # {})
    => /\ ~ret.result.ok
       /\ (/\ Cardinality(MissingRequired(table.columns, ret.item)) = 1
           /\ Mismatched(table.columns, ret.item) = {})
          => /\ ret.result.err = "MissingColumn"
             /\ ret.result.column \in MissingRequired(table.columns, ret.item)

\* C12: a document with a field of the wrong type is not accepted, and when
\* that is its only violation the error is ExpectedString or ExpectedBoolean
\* of that column.
C12_TypeMismatchRejected ==
    (ret.op = "validate" /\ Mismatched(table.columns, ret.item) # {})
    => /\ ~ret.result.ok
       /\ (/\ Cardinality(Mismatched(table.columns, ret.item)) = 1
           /\ MissingRequired(table.columns, ret.item) = {})
          => /\ ret.result.column \in Mismatched(table.columns, ret.item)
             /\ ret.result.err =
                    IF table.columns[ret.result.column].data_type = "String"
                    THEN "ExpectedString" ELSE "ExpectedBoolean"

\* C13: a document with every required column present and every present
\* column of the declared type is accepted.
C13_ValidDocumentAccepted ==
    (/\ ret.op = "validate"
     /\ MissingRequired(table.columns, ret.item) = {}
     /\ Mismatched(table.columns, ret.item) = {})
    => ret.result.ok

\* An accepted document that lacks a non-required column, holds a required
\* one and carries a field the schema does not mention.
C13_Witness ==
    /\ ret.op = "validate"
    /\ ret.result.ok
    /\ MissingRequired(table.columns, ret.item) = {}
    /\ Mismatched(table.columns, ret.item) = {}
    /\ \E c \in DOMAIN table.columns : ~table.columns[c].required /\ c \notin DOMAIN ret.item
    /\ \E c \in DOMAIN table.columns : table.columns[c].required /\ c \in DOMAIN ret.item
    /\ ExtraField \in DOMAIN ret.item

(***************************************************************************)
(* Inserts that may be rejected: the table of the engine tests (columns    *)
(* id and enabled under every declaration, an index on id) and documents   *)
(* with absent fields, fields of a wrong type and an extra field.          *)
(***************************************************************************)
\* Number of accepted inserts in one behaviour of SpecInsert.
MaxInsertRows == 3

\* The documents offered to insert_row: id a string, a number or absent,
\* enabled a boolean, a string or absent, with or without the extra field.
InsertDocuments ==
    {d \in Documents :
        /\ "id" \in DOMAIN d => d["id"] \in {"x", "1"}
        /\ "enabled" \in DOMAIN d => d["enabled"] \in {"true", "x"}
        /\ ExtraField \in DOMAIN d => d[ExtraField] = "x"}

InsertQueries == {Condition("id", "=", v) : v \in {"x", "1"}}

InitInsert ==
    /\ table \in [name : {"users"}, columns : Schemas,
                  indexes : {<<Index("id_indx", <<"id">>)>>}]
    /\ temps = <<>>
    /\ data = <<>>
    /\ idx = [n \in {"id_indx"} |-> EmptyIndex]
    /\ nextUid = 1
    /\ ordinals = <<>>
    /\ ret = Nothing
    /\ databases = <<>>
    /\ threads = NoThreads

NextInsert ==
    \/ \E item \in InsertDocuments : nextUid <= MaxInsertRows /\ InsertRow(item)
    \/ ReconcileAll
    \/ \E table_name \in TableNames, ops \in InsertQueries : Search(table_name, ops)
    \/ DropResult

SpecInsert == InitInsert /\ [][NextInsert]_vars

\* C14: an insert that returns an error leaves the temp shards, the primary
\* MapShard and every index as they were before the call.
C14_RejectedInsertHasNoEffect ==
    [][(ret'.op = "error" /\ ret'.kind \in {"ValidationError", "SerializationError"})
       => /\ temps' = temps
          /\ data' = data
          /\ idx' = idx
          /\ ordinals' = ordinals
          /\ nextUid' = nextUid]_vars

\* An insert has been rejected by the validation on a table that holds a
\* staged row and a reconciled one.
C14_Witness ==
    /\ ret.op = "error"
    /\ ret.kind = "ValidationError"
    /\ temps # <<>>
    /\ data # <<>>

\* C15: a search on a name that was never registered returns
\* InvalidTable(name) and changes no table, shard or index.
C15_UnknownTableIsAnError ==
    [][\A table_name \in TableNames \ {table.name}, ops \in Queries :
           Search(table_name, ops)
           => /\ ret' = Failed("QueryError", "InvalidTable", table_name)
              /\ UNCHANGED <<table, temps, data, idx, nextUid, ordinals>>]_vars

\* InvalidTable has been returned on a table that holds staged and
\* reconciled rows.
C15_Witness ==
    /\ ret.op = "error"
    /\ ret.err = "InvalidTable"
    /\ ret.column \notin {table.name}
    /\ temps # <<>>
    /\ data # <<>>

(***************************************************************************)
(* SchemeJsEngine, crates/engine/src/engine.rs: the catalog of databases.  *)
(* An EngineDb is its name and the names of the tables registered with     *)
(* its query manager.                                                      *)
(***************************************************************************)
\* Length of the catalog at which no further database is added.
MaxDatabases == 3

DbNames == {"public", "rust-test-random"}
TableFiles == {"users", "posts"}

\* EngineDb::new(base_path, name): a database without tables.
EngineDb(name) == [name |-> name, tables |-> {}]

\* Position of the first database of that name (iter().find), 0 if none.
FindByName(dbs, name) ==
    IF \E i \in DOMAIN dbs : dbs[i].name = name
    THEN Min({i \in DOMAIN dbs : dbs[i].name = name})
    ELSE 0

\* A schema folder handed to load_database_schema: its file name, whether
\* it exists and whether it holds a tables folder.
SchemaPaths == [file_name : DbNames, exists : BOOLEAN, has_tables : BOOLEAN]

InitEngine ==
    /\ table \in [name : {"users"}, columns : {Columns}, indexes : {<<>>}]
    /\ temps = <<>>
    /\ data = <<>>
    /\ idx = [n \in {} |-> EmptyIndex]
    /\ nextUid = 1
    /\ ordinals = <<>>
    /\ ret = Nothing
    /\ databases = <<>>
    /\ threads = NoThreads

\* add_database(name): a new EngineDb is pushed.
AddDatabase(name) ==
    /\ Len(databases) < MaxDatabases
    /\ databases' = Append(databases, EngineDb(name))
    /\ ret' = Nothing
    /\ UNCHANGED <<table, temps, data, idx, nextUid, ordinals, threads>>

\* load_database_schema(path): bails when the path does not exist; otherwise
\* adds the database named after the folder, then resolves the tables
\* folder (an error if there is none) and returns the schema name.
LoadDatabaseSchema(path) ==
    /\ Len(databases) < MaxDatabases
    /\ IF ~path.exists
       THEN /\ ret' = Failed("anyhow", "schema does not exist", path.file_name)
            /\ UNCHANGED databases
       ELSE /\ databases' = Append(databases, EngineDb(path.file_name))
            /\ ret' = IF path.has_tables
                      THEN [op |-> "load_database_schema", schema_name |-> path.file_name]
                      ELSE Failed("anyhow", "canonicalize", path.file_name)
    /\ UNCHANGED <<table, temps, data, idx, nextUid, ordinals, threads>>

\* register_tables(schema_name, loaded_tables): the tables are added to the
\* first database of that name; find_by_name(..).unwrap() panics if none.
RegisterTables(schema_name, loaded_tables) ==
    /\ LET i == FindByName(databases, schema_name)
       IN  IF i = 0
           THEN /\ ret' = [op |-> "panic", schema_name |-> schema_name]
                /\ UNCHANGED databases
           ELSE /\ databases' = [databases EXCEPT ![i].tables = @ \cup loaded_tables]
                /\ ret' = Nothing
    /\ UNCHANGED <<table, temps, data, idx, nextUid, ordinals, threads>>

NextEngine ==
    \/ \E name \in DbNames : AddDatabase(name)
    \/ \E path \in SchemaPaths : LoadDatabaseSchema(path)
    \/ \E name \in DbNames, loaded_tables \in SUBSET TableFiles :
           RegisterTables(name, loaded_tables)

SpecEngine == InitEngine /\ [][NextEngine]_vars

\* C16: the catalog never holds two databases of one name, and add_database
\* of a name the catalog already holds leaves the catalog as it was.
C16_AddDatabaseIdempotent ==
    [][/\ \A i, j \in DOMAIN databases' :
              databases'[i].name = databases'[j].name => i = j
       /\ \A name \in DbNames :
              (AddDatabase(name) /\ FindByName(databases, name) # 0)
              => databases' = databases]_vars

(***************************************************************************)
(* test_db_engine: two threads insert one row each into the table users    *)
(* (one column id, no index), then the main thread reconciles.  In the     *)
(* test each thread holds the engine's write lock around its insert; the   *)
(* model also runs the threads without that lock, where only the append    *)
(* to the temp shard is atomic (the temp shard's own lock).                *)
(***************************************************************************)
Threads == {1, 2}

InitThreads ==
    /\ table = [name |-> "users",
                columns |-> [c \in {"id"} |-> [data_type |-> "String", required |-> FALSE]],
                indexes |-> <<>>]
    /\ temps = <<>>
    /\ data = <<>>
    /\ idx = [n \in {} |-> EmptyIndex]
    /\ nextUid = 1
    /\ ordinals = <<>>
    /\ ret = Nothing
    /\ databases = <<>>
    /\ threads \in [pc : {[t \in Threads |-> "spawned"]},
                    item : [Threads -> [{"id"} -> Vals]],
                    val : {[t \in Threads |-> <<>>]},
                    lock : {0},
                    locking : BOOLEAN,
                    arrived : {<<>>}]

\* db_engine.write(): the thread waits for the engine lock and takes it.
ThreadLock(t) ==
    /\ threads.pc[t] = "spawned"
    /\ threads.locking => threads.lock = 0
    /\ threads' = [threads EXCEPT !.pc[t] = "locked",
                                  !.lock = IF threads.locking THEN t ELSE @]
    /\ UNCHANGED <<table, temps, data, idx, nextUid, ordinals, ret, databases>>

\* insert_row, first statement: the document is validated.
ThreadValidate(t) ==
    /\ threads.pc[t] = "locked"
    /\ \E order \in ColumnOrders(table.columns) :
           threads' = [threads EXCEPT !.pc[t] =
                          IF ValidateRowValue(table.columns, order, threads.item[t]).ok
                          THEN "validated" ELSE "failed"]
    /\ UNCHANGED <<table, temps, data, idx, nextUid, ordinals, ret, databases>>

\* insert_row, second statement: the document, which carries the thread's
\* _uid, is serialized into the thread's own buffer.
ThreadSerialize(t) ==
    /\ threads.pc[t] = "validated"
    /\ threads' = [threads EXCEPT !.pc[t] = "serialized",
                                  !.val[t] = Serialize(WithUid(threads.item[t], t))]
    /\ UNCHANGED <<table, temps, data, idx, nextUid, ordinals, ret, databases>>

\* insert_row, third statement: temp_shards.insert_row(val).
ThreadStage(t) ==
    /\ threads.pc[t] = "serialized"
    /\ temps' = TempInsertRow(temps, threads.val[t])
    /\ threads' = [threads EXCEPT !.pc[t] = "staged", !.arrived = Append(@, t)]
    /\ UNCHANGED <<table, data, idx, nextUid, ordinals, ret, databases>>

\* The closure ends: the write guard is dropped and the thread can be joined.
ThreadUnlock(t) ==
    /\ threads.pc[t] \in {"staged", "failed"}
    /\ threads' = [threads EXCEPT !.pc[t] = "done",
                                  !.lock = IF threads.locking THEN 0 ELSE @]
    /\ UNCHANGED <<table, temps, data, idx, nextUid, ordinals, ret, databases>>

\* After both joins the main thread calls reconcile_all, once.
ThreadsReconcile ==
    /\ \A t \in Threads : threads.pc[t] = "done"
    /\ temps # <<>>
    /\ ReconcileAll

NextThreads ==
    \/ \E t \in Threads : ThreadLock(t)
    \/ \E t \in Threads : ThreadValidate(t)
    \/ \E t \in Threads : ThreadSerialize(t)
    \/ \E t \in Threads : ThreadStage(t)
    \/ \E t \in Threads : ThreadUnlock(t)
    \/ ThreadsReconcile

SpecThreads == InitThreads /\ [][NextThreads]_vars

C18_ReconcileDrainsEverything ==
    [][ReconcileAll
       => /\ temps' = <<>>
          /\ Flatten(data') = Flatten(data) \o Flatten(temps)
          /\ MapShardLen(data') = MapShardLen(data) + Len(Flatten(temps))
          /\ ret'.drained = [i \in DOMAIN temps |-> Len(temps[i])]]_vars

\* A reconciliation has drained a full temp shard and the one opened after
\* it, and the primary MapShard holds their records.
C18_Witness ==
    /\ ret.op = "reconcile_all"
    /\ Len(ret.drained) = 2
    /\ ret.drained[1] = Capacity
    /\ ret.drained[2] > 0
    /\ MapShardLen(data) = ret.drained[1] + ret.drained[2]
    /\ temps = <<>>

MaxPathLen == 2

RuntimeNames == {"D", "SchemeJS.toml", "CustomSchemeJS.toml"}

\* std::env::current_dir().
CurrentDir == <<"cwd">>

ConfigPaths ==
    [absolute : BOOLEAN,
     parts : UNION {[1..n -> RuntimeNames] : n \in 0..MaxPathLen}]

FileSystems == [RuntimeNames -> {"dir", "file", "none"}]

\* PathBuf::join: an absolute argument replaces the base.
PathJoin(base, path) == IF path.absolute THEN path.parts ELSE base \o path.parts

RECURSIVE KindOf(_, _)
\* What the file system holds at a path: the root and the current directory
\* are directories, and only a directory has entries.
KindOf(fs, parts) ==
    IF parts = <<>> THEN "dir"
    ELSE IF KindOf(fs, SubSeq(parts, 1, Len(parts) - 1)) # "dir" THEN "none"
    ELSE IF parts = CurrentDir THEN "dir"
    ELSE IF parts[Len(parts)] \in DOMAIN fs THEN fs[parts[Len(parts)]]
    ELSE "none"

\* Path::parent: None for the root.
Parent(parts) == IF parts = <<>> THEN None ELSE Some(SubSeq(parts, 1, Len(parts) - 1))

\* A resolution that never asks whether the path is a directory.
ResolveConfigAsFile(fs, config_path) ==
    LET base_path == PathJoin(CurrentDir, config_path)
    IN  [folder_path |-> IF Parent(base_path).some THEN Parent(base_path).val ELSE CurrentDir,
         config_file |-> base_path]

\* (folder_path, config_file) of SchemeJsRuntime::new.
ResolveConfig(fs, config_path) ==
    LET base_path == PathJoin(CurrentDir, config_path)
    IN  IF KindOf(fs, base_path) = "dir"
        THEN [folder_path |-> base_path, config_file |-> Append(base_path, "SchemeJS.toml")]
        ELSE [folder_path |-> IF Parent(base_path).some THEN Parent(base_path).val
                                                         ELSE CurrentDir,
              config_file |-> base_path]

InitRuntime ==
    /\ table \in [name : {"users"}, columns : {Columns}, indexes : {<<>>}]
    /\ temps = <<>>
    /\ data = <<>>
    /\ idx = [n \in {} |-> EmptyIndex]
    /\ nextUid = 1
    /\ ordinals = <<>>
    /\ ret = Nothing
    /\ databases = <<>>
    /\ threads = NoThreads

\* SchemeJsRuntime::new(opts) on a file system: the paths are resolved, and
\* the call fails when there is no configuration file to read at config_file.
NewRuntime(config_path, fs) ==
    /\ LET resolved == ResolveConfig(fs, config_path)
       IN  ret' = [op |-> "new", config_path |-> config_path, fs |-> fs,
                   ok |-> KindOf(fs, resolved.config_file) = "file",
                   current_folder |-> resolved.folder_path,
                   config_file |-> resolved.config_file]
    /\ UNCHANGED <<table, temps, data, idx, nextUid, ordinals, databases, threads>>

NextRuntime == \E config_path \in ConfigPaths, fs \in FileSystems : NewRuntime(config_path, fs)

SpecRuntime == InitRuntime /\ [][NextRuntime]_vars

\* C20: when the configuration path names a directory D, current_folder is
\* D and config_file is D/SchemeJS.toml; otherwise current_folder is the
\* parent of the path and config_file is the path itself.
C20_ConfigPathResolution ==
    ret.op = "new"
    => LET path == PathJoin(CurrentDir, ret.config_path)
       IN  IF KindOf(ret.fs, path) = "dir"
           THEN /\ ret.current_folder = path
                /\ ret.config_file = path \o <<"SchemeJS.toml">>
           ELSE /\ ret.config_file = path
                /\ ret.current_folder \o <<path[Len(path)]>> = path

\* The runtime was started on D/CustomSchemeJS.toml, a file in the
\* directory D.
C20_Witness ==
    /\ ret.op = "new"
    /\ ret.ok
    /\ ret.config_path.parts = <<"D", "CustomSchemeJS.toml">>
    /\ ret.current_folder = PathJoin(CurrentDir, [ret.config_path EXCEPT !.parts = <<"D">>])
    /\ ret.config_file = PathJoin(CurrentDir, ret.config_path)

(***************************************************************************)
(* Last writer wins on a hash index.                                       *)
(***************************************************************************)
\* The lookup that answers a query from one index: the composite-key lookup
\* of execute_query when find_index_for_query finds one, otherwise the
\* lookup of evaluate_condition on the single-member index of a condition.
LookupOf(query, indexes) ==
    LET index_query == FindIndexForQuery(query, indexes)
    IN  IF index_query.some THEN index_query
        ELSE IF query.type = "cond" /\ GetIndexForCondition(query, indexes).some
             THEN Some([index |-> GetIndexForCondition(query, indexes).val,
                        key   |-> << <<query.key, ValueToString(query.value)>> >>])
             ELSE None

\* The row holds, for every part of the composite key, that part's value.
Carries(row, key) ==
    \A i \in DOMAIN key : key[i][1] \in DOMAIN row /\ ValueToString(row[key[i][1]]) = key[i][2]

\* Every condition of the query is an equality.
EqualityOnly(query) ==
    /\ CollectConditions(query).some
    /\ \A i \in DOMAIN CollectConditions(query).val :
           CollectConditions(query).val[i].filter_type = "="

\* C21: an equality lookup answered by an index returns at most one row, and
\* the row it returns is the latest record of the primary MapShard that
\* carries the composite key of the lookup.
C21_LastWriterWins ==
    (/\ ret.op = "search"
     /\ EqualityOnly(ret.query)
     /\ LookupOf(ret.query, table.indexes).some)
    => LET key == LookupOf(ret.query, table.indexes).val.key
           carriers == {o \in DOMAIN PrimaryRows : Carries(PrimaryRows[o], key)}
       IN  /\ ~ret.panic
           /\ Len(ret.rows) <= 1
           /\ Len(ret.rows) = 1
                  => /\ carriers # {}
                     /\ ret.rows[1] = PrimaryRows[CHOOSE o \in carriers : \A o2 \in carriers : o2 <= o]

\* A lookup on a composite index has returned the later of two reconciled
\* rows that carry its key.
C21_Witness ==
    /\ ret.op = "search"
    /\ EqualityOnly(ret.query)
    /\ LookupOf(ret.query, table.indexes).some
    /\ Len(LookupOf(ret.query, table.indexes).val.key) = 2
    /\ Len(PrimaryRows) = 2
    /\ \A o \in DOMAIN PrimaryRows :
           Carries(PrimaryRows[o], LookupOf(ret.query, table.indexes).val.key)
    /\ ret.rows = <<PrimaryRows[2]>>

(***************************************************************************)
(* Planner strategy 1.                                                     *)
(***************************************************************************)
\* The declared indexes a query covers: every member has a condition and
\* every condition key is a member.
CoveredIndexes(query, indexes) ==
    LET conditions == CollectConditions(query).val
        condition_keys == {conditions[i].key : i \in DOMAIN conditions}
    IN  {i \in DOMAIN indexes : Range(indexes[i].members) = condition_keys}

\* The pointers of one composite-key lookup on an index, the key built from
\* the conditions as generate_index_key builds it.
LookupOn(index, conditions, ix) ==
    LET key == GenerateIndexKey(index, conditions)
        pointer == IndexGet(ix[index.name], ToKey(key.val))
    IN  IF key.some /\ pointer.some THEN <<pointer.val>> ELSE <<>>

\* C22: an Or-free equality query, one condition per key, whose keys are
\* exactly the members of some declared index is answered by one
\* composite-key lookup on such an index, whatever else is declared and in
\* whatever order.
C22_CoveredQueryIsOneLookup ==
    (/\ ret.op = "search"
     /\ EqualityOnly(ret.query)
     /\ NoDuplicates([i \in DOMAIN CollectConditions(ret.query).val |->
                         CollectConditions(ret.query).val[i].key])
     /\ CoveredIndexes(ret.query, table.indexes) # {})
    => /\ ~ret.panic
       /\ \E i \in CoveredIndexes(ret.query, table.indexes) :
              ret.rows = ReadRows(data, LookupOn(table.indexes[i],
                                                 CollectConditions(ret.query).val, idx)).rows

\* C23: no temp shard ever holds more than Capacity records, and only the
\* active (last) temp shard holds fewer: the record that follows the one
\* which filled a shard is in the next shard.
C23_TempShardWithinCapacity ==
    \A i \in DOMAIN temps :
        /\ Len(temps[i]) <= Capacity
        /\ i < Len(temps) => Len(temps[i]) = Capacity

\* One record more than the capacity has been inserted: the first temp
\* shard is full and the latest record is alone in the second.
C23_Witness ==
    /\ Len(temps) = 2
    /\ Len(temps[1]) = Capacity
    /\ Len(temps[2]) = 1
    /\ Deserialize(temps[2][1])[UidField] = Capacity + 1

\* C25: get_element(i) returns the bytes passed to the append that returned
\* ordinal i.  reconcile_all appends the staged records one after another
\* and notes the ordinal of every append: afterwards each of these ordinals
\* reads back the record appended under it, every ordinal handed out before
\* still reads back what it did (also from a shard that is no longer the
\* current one), and an ordinal at or past len() is OutOfRange.
C25_GetElementReturnsAppended ==
    [][ReconcileAll =>
          /\ Len(ordinals') = Len(ordinals) + Len(Flatten(temps))
          /\ \A k \in DOMAIN Flatten(temps) :
                 GetElement(data', ordinals'[Len(ordinals) + k])
                     = [ok |-> TRUE, bytes |-> Flatten(temps)[k]]
          /\ \A i \in 0..(MapShardLen(data) - 1) :
                 GetElement(data', i).ok /\ GetElement(data', i) = GetElement(data, i)
          /\ \A i \in 0..(MapShardLen(data') - 1) : GetElement(data', i).ok
          /\ \A i \in MapShardLen(data')..(MapShardLen(data') + 1) :
                 ~GetElement(data', i).ok]_vars

\* Three records were appended in two reconciliations: ordinal 0 lies in the
\* first, full shard and still reads back the first record, and ordinal 3
\* is out of range.
C25_Witness ==
    /\ ret.op = "reconcile_all"
    /\ Len(data) = 2
    /\ ordinals = <<0, 1, 2>>
    /\ ret.drained = <<1>>
    /\ GetElement(data, 0).ok
    /\ Deserialize(GetElement(data, 0).bytes)[UidField] = 1
    /\ ~GetElement(data, 3).ok

\* Everything search(ops) may return in the current state: the rows read for
\* the pointers of execute_query, in each order the HashSet iteration of
\* union_indices and intersect_indices may list them.
SearchResults(ops) ==
    {ReadRows(data, pointers).rows :
        pointers \in Orderings(ExecuteQuery(table.indexes, idx, ops))}

\* C26: the rows a search has returned, in their order, are what every
\* execution of search with the same predicate returns on the same table
\* state (the table does not change while the result is held).
C26_SearchOrderDeterministic ==
    ret.op = "search" => SearchResults(ret.query) = {ret.rows}

RECURSIVE AllEqualities(_)
\* Every leaf condition of the predicate tree is an equality.
AllEqualities(ops) ==
    IF ops.type = "cond" THEN ops.filter_type = "="
    ELSE \A i \in DOMAIN ops.ops : AllEqualities(ops.ops[i])

\* C28: every row search returns for a predicate made of equalities
\* satisfies the predicate; an And holding k = v1 and k = v2 with v1 # v2 is
\* satisfied by no row and so returns none.
C28_ReturnedRowsSatisfyPredicate ==
    (ret.op = "search" /\ AllEqualities(ret.query))
    => /\ ~ret.panic
       /\ \A i \in DOMAIN ret.rows : Satisfies(ret.rows[i], ret.query)

\* The same two children in the other order.
Swapped(ops) == [ops EXCEPT !.ops = <<ops.ops[2], ops.ops[1]>>]

\* C29: the set of rows search returns for And[p, q] is the set it returns
\* for And[q, p] on the same table state, and likewise for Or.
C29_ChildOrderIrrelevant ==
    (/\ ret.op = "search"
     /\ ret.query.type \in {"and", "or"}
     /\ Len(ret.query.ops) = 2)
    => /\ ~ret.panic
       /\ Range(ret.rows) = RowsOf(Swapped(ret.query))

(***************************************************************************)
(* Reconciliation step by step, next to writers and a reader.              *)
(* reconcile_all (specification 4.3 and 5) takes the temp shards in        *)
(* creation order; for each it takes the exclusive lease on the primary    *)
(* MapShard, migrates the records in order (append, then the per-record    *)
(* callback with the final ordinal), deletes the shard once it is fully    *)
(* drained and releases the lease; it may end between two temp shards.     *)
(* Writers stage rows under the short lock of the active temp shard at any *)
(* moment.  The reader is search (search_manager.rs:173-190): the pointers *)
(* of execute_query, then for each pointer data.read() and get_element.    *)
(* At most one reconciliation is in flight.                                *)
(***************************************************************************)
MaxReconcileRows == 3

\* The rows the writers insert: they differ in column a only.
ReconcileItems == {item \in Items : item["b"] = "x" /\ item["c"] = "x"}

ReconcileQueries ==
    {Condition("a", "=", v) : v \in Vals}
        \cup {Or(<<Condition("a", "=", "x"), Condition("a", "=", "y")>>)}

\* What the reader got: the rows of a search (or its panic), or len().
Read(op, query, rows, panic, len) ==
    [op |-> op, query |-> query, rows |-> rows, panic |-> panic, len |-> len]

\* pc, pos, ordinal: where reconcile_all stands, the number of records of
\* the oldest temp shard already migrated, and the ordinal of the latest
\* append.  lock: the holder of the primary MapShard's exclusive lock.
\* reader, query, pointers, rows: the search in progress.  raced counts the
\* inserts that reached a temp shard while it was being drained.
InitReconcile ==
    /\ table = [name |-> "users", columns |-> Columns, indexes |-> TestIndexes]
    /\ temps = <<>>
    /\ data = <<>>
    /\ idx = [n \in {table.indexes[i].name : i \in DOMAIN table.indexes} |-> EmptyIndex]
    /\ nextUid = 1
    /\ ordinals = <<>>
    /\ ret = Read("none", NoQuery, <<>>, FALSE, 0)
    /\ databases = <<>>
    /\ threads = [pc |-> "idle", pos |-> 0, ordinal |-> 0, lock |-> "free",
                  reader |-> "idle", query |-> NoQuery, pointers |-> <<>>, rows |-> <<>>,
                  raced |-> 0]

\* A reader that does not wait for the lock.
ReadLockAlwaysFree(lock) == TRUE

\* data.read(): granted unless the exclusive lock is held.
ReadLockFree(lock) == lock # "reconciler"

\* insert_row by a writer thread: the row is validated, serialized and
\* appended to the active temp shard.
WriterInsertRow(item) ==
    /\ nextUid <= MaxReconcileRows
    /\ \E order \in ColumnOrders(table.columns) :
           ValidateRowValue(table.columns, order, item).ok
    /\ temps' = TempInsertRow(temps, Serialize(WithUid(item, nextUid)))
    /\ nextUid' = nextUid + 1
    /\ threads' = [threads EXCEPT !.raced =
                      IF threads.pc \in {"drain", "appended"} /\ Len(temps) = 1
                      THEN @ + 1 ELSE @]
    /\ UNCHANGED <<table, data, idx, ordinals, ret, databases>>

\* reconcile_all is called; no other reconciliation is in flight.
ReconcileAllCall ==
    /\ threads.pc = "idle"
    /\ threads' = [threads EXCEPT !.pc = "next"]
    /\ UNCHANGED <<table, temps, data, idx, nextUid, ordinals, ret, databases>>

\* The oldest temp shard is taken up: the exclusive lease on the primary
\* MapShard is acquired.
BeginShard ==
    /\ threads.pc = "next"
    /\ temps # <<>>
    /\ threads.lock = "free"
    /\ threads' = [threads EXCEPT !.pc = "drain", !.pos = 0, !.lock = "reconciler"]
    /\ UNCHANGED <<table, temps, data, idx, nextUid, ordinals, ret, databases>>

\* The next record of the temp shard is appended to the primary MapShard.
MigrateAppend ==
    /\ threads.pc = "drain"
    /\ threads.pos < Len(temps[1])
    /\ LET bytes == temps[1][threads.pos + 1]
       IN  /\ data' = MapShardAppend(data, bytes)
           /\ ordinals' = Append(ordinals, AppendOrdinal(data, bytes))
           /\ threads' = [threads EXCEPT !.pc = "appended",
                                         !.ordinal = AppendOrdinal(data, bytes)]
    /\ UNCHANGED <<table, temps, idx, nextUid, ret, databases>>

\* The per-record callback: the indexes learn the record's final ordinal.
MigrateCallback ==
    /\ threads.pc = "appended"
    /\ idx' = PutAll(idx, table.indexes, Deserialize(temps[1][threads.pos + 1]),
                     threads.ordinal)
    /\ threads' = [threads EXCEPT !.pc = "drain", !.pos = @ + 1]
    /\ UNCHANGED <<table, temps, data, nextUid, ordinals, ret, databases>>

\* A temp shard deleted whatever it still holds.
DeleteShardUndrained ==
    /\ threads.pc = "drain"
    /\ temps' = Tail(temps)
    /\ threads' = [threads EXCEPT !.pc = "next", !.pos = 0, !.lock = "free"]
    /\ UNCHANGED <<table, data, idx, nextUid, ordinals, ret, databases>>

\* The temp shard is fully drained: its file is deleted and the lease is
\* released.
FinishShard ==
    /\ threads.pc = "drain"
    /\ threads.pos = Len(temps[1])
    /\ temps' = Tail(temps)
    /\ threads' = [threads EXCEPT !.pc = "next", !.pos = 0, !.lock = "free"]
    /\ UNCHANGED <<table, data, idx, nextUid, ordinals, ret, databases>>

\* reconcile_all returns, between two temp shards or after the last one.
ReconcileAllReturn ==
    /\ threads.pc = "next"
    /\ threads' = [threads EXCEPT !.pc = "idle"]
    /\ UNCHANGED <<table, temps, data, idx, nextUid, ordinals, ret, databases>>

\* search, first half: execute_query yields the pointers.
SearchPlan(ops) ==
    /\ threads.reader = "idle"
    /\ \E pointers \in Orderings(ExecuteQuery(table.indexes, idx, ops)) :
           threads' = [threads EXCEPT !.reader = "reading", !.query = ops,
                                      !.pointers = pointers, !.rows = <<>>]
    /\ UNCHANGED <<table, temps, data, idx, nextUid, ordinals, ret, databases>>

\* search, one turn of the loop: data.read(), get_element(pointer).unwrap().
SearchRead ==
    /\ threads.reader = "reading"
    /\ threads.pointers # <<>>
    /\ ReadLockFree(threads.lock)
    /\ LET got == GetElement(data, Head(threads.pointers))
       IN  IF got.ok
           THEN /\ threads' = [threads EXCEPT !.pointers = Tail(@),
                                              !.rows = Append(@, Deserialize(got.bytes))]
                /\ ret' = ret
           ELSE /\ threads' = [threads EXCEPT !.reader = "idle", !.pointers = <<>>,
                                              !.rows = <<>>]
                /\ ret' = Read("search", threads.query, <<>>, TRUE, 0)
    /\ UNCHANGED <<table, temps, data, idx, nextUid, ordinals, databases>>

\* search returns Ok(results).
SearchReturn ==
    /\ threads.reader = "reading"
    /\ threads.pointers = <<>>
    /\ ret' = Read("search", threads.query, threads.rows, FALSE, 0)
    /\ threads' = [threads EXCEPT !.reader = "idle", !.rows = <<>>]
    /\ UNCHANGED <<table, temps, data, idx, nextUid, ordinals, databases>>

\* data.read().len() by the reader.
ReadLen ==
    /\ threads.reader = "idle"
    /\ ReadLockFree(threads.lock)
    /\ ret' = Read("len", NoQuery, <<>>, FALSE, MapShardLen(data))
    /\ UNCHANGED <<table, temps, data, idx, nextUid, ordinals, databases, threads>>

NextReconcile ==
    \/ \E item \in ReconcileItems : WriterInsertRow(item)
    \/ ReconcileAllCall
    \/ BeginShard
    \/ MigrateAppend
    \/ MigrateCallback
    \/ FinishShard
    \/ ReconcileAllReturn
    \/ \E ops \in ReconcileQueries : SearchPlan(ops)
    \/ SearchRead
    \/ SearchReturn
    \/ ReadLen

SpecReconcile == InitReconcile /\ [][NextReconcile]_vars

\* The thread that drains a temp shard holds the lease and waits for nobody,
\* and there is no cancellation: each step of the drain is taken in time.
SpecReconcileFair ==
    /\ SpecReconcile
    /\ WF_vars(MigrateAppend)
    /\ WF_vars(MigrateCallback)
    /\ WF_vars(FinishShard)

\* A temp shard is being drained: the reconciliation stands between taking
\* it up and deleting it.
Draining == threads.pc \in {"drain", "appended"}

\* Only part of the records of the temp shard being drained is in the
\* primary MapShard.
PartlyMigrated ==
    /\ Draining
    /\ \/ threads.pc = "appended"
       \/ 0 < threads.pos /\ threads.pos < Len(temps[1])

\* C24: reconcile_all holds the exclusive lock of the primary MapShard from
\* taking up a temp shard to deleting it and does not hold it between two
\* temp shards; no read of the primary MapShard by search or len() happens
\* while a temp shard is partly migrated; and a drain that has started
\* reaches the deletion of its temp shard.
C24_DrainHoldsExclusiveLock ==
    /\ [](Draining <=> threads.lock = "reconciler")
    /\ [][(SearchRead \/ ReadLen) => ~PartlyMigrated]_vars
    /\ (Draining ~> threads.pc = "next")

\* A search waits for its first read while one of the two records of the
\* temp shard has been migrated.
C24_Witness ==
    /\ threads.pc = "drain"
    /\ threads.pos = 1
    /\ Len(temps[1]) = 2
    /\ threads.lock = "reconciler"
    /\ threads.reader = "reading"
    /\ threads.pointers # <<>>

\* C27: in every state, also between the append of a record and its
\* callback and between two records of a drain, every ordinal held by an
\* index is below the length of the primary MapShard; a search that read
\* its pointers from the indexes has not failed on get_element.
C27_IndexedOrdinalsInRange ==
    /\ \A n \in DOMAIN idx : \A k \in DOMAIN idx[n] :
           /\ idx[n][k] < MapShardLen(data)
           /\ GetElement(data, idx[n][k]).ok
    /\ ret.op = "search" => ~ret.panic

\* A search has returned a row and another one holds a pointer it took from
\* an index, while a second record is appended to the primary MapShard and
\* its callback has not run yet.
C27_Witness ==
    /\ threads.pc = "appended"
    /\ MapShardLen(data) = 2
    /\ \E n \in DOMAIN idx : idx[n] # EmptyIndex
    /\ ret.op = "search"
    /\ Len(ret.rows) = 1
    /\ threads.reader = "reading"
    /\ threads.pointers # <<>>

ValidateResults(columns, item) ==
    {ValidateRowValue(columns, order, item) : order \in ColumnOrders(columns)}

\* C31: the result validate has returned for a document (Ok, or the error
\* and the column it names) is its result under every iteration order of
\* the table's column map.
C31_ValidateIndependentOfColumnOrder ==
    ret.op = "validate" => ValidateResults(table.columns, ret.item) = {ret.result}

====
